---- MODULE Spec2Model ----
(***************************************************************************)
(* Verification model of function-openai: the tool-config resolver         *)
(* (internal/tool), the composed-resource YAML codec and the two-mode      *)
(* RunFunction pipeline (fn.go).                                           *)
(*                                                                         *)
(* Text is modelled as a sequence of tokens.  A token is one character     *)
(* ("-", "a", "=", "_", "\n", ...) or one indivisible word that contains   *)
(* none of the characters the code splits or trims on ("transport",        *)
(* "http://local", ...).  The empty string is <<>>.                        *)
(***************************************************************************)
EXTENDS Integers, Sequences, FiniteSets, TLC

VARIABLES
    ei,         \* FromEnvVars: 1 + the number of entries of Environ() scanned
    cur,        \* FromEnvVars: the entry e of the last loop iteration
    cfgs,       \* FromEnvVars: the map key -> Config being built
    merged,     \* cfgs as it was when the scan loop ended (before validation)
    verdict,    \* key -> what Valid returned for it in the validation loop
    rphase,     \* "idle" | "scan" | "validate" | "returned" | "panic"
    lastParse,  \* the last call of parse: [called, e, res]
    mfrags,     \* merge fold: the Config fragments for one provider key
    mleft,      \* merge fold: indices of fragments not yet applied
    macc,       \* merge fold: the accumulated Config
    mlast,      \* the last call of merge: [called, currentc, newc, res]
    composed,   \* codec: the named resources given to ComposedToYAML
    ytext,      \* codec: the YAML stream
    cphase,     \* "idle" | "start" | "encoded" | "stream" | "roundtrip" | "decoded"
    cres,       \* codec: what ComposedFromYAML returned
    sin,        \* removeYAMLMarkdown: the text first passed in
    souts,      \* removeYAMLMarkdown: the results of the successive calls
    req,        \* RunFunction: the request
    rsp,        \* RunFunction: the response under construction
    pc,         \* RunFunction: "idle" | "start" | "composition" | "operation" |
                \* "invoke" | "replied" | "returned" | "panic"
    mode,       \* the pipeline RunFunction chose: "none" | "composition" | "operation"
    rerr,       \* whether the Go error RunFunction returned is non-nil
    invoked,    \* how many times agentInvoker.Invoke was called
    reply,      \* what Invoke returned: [err, text]
    decoded,    \* what ComposedFromYAML or resourceFrom returned for the reply
    other,      \* the locals of a second RunFunction call that is not running now
    provs,      \* Resolve: the configs in the order the range statement visits them
    pidx,       \* Resolve: 1 + the number of configs visited
    tools,      \* Resolve: res, the tools collected
    opened,     \* Resolve: indices of the configs whose client is started and not closed
    vphase      \* Resolve: "idle" | "loop" | "returned"

resolverVars == <<ei, cur, cfgs, merged, verdict, rphase, lastParse>>
mergeVars == <<mfrags, mleft, macc, mlast>>
codecVars == <<composed, ytext, cphase, cres>>
stripVars == <<sin, souts>>
runVars == <<req, rsp, pc, mode, rerr, invoked, reply, decoded>>
callVars == <<other>>
resolveVars == <<provs, pidx, tools, opened, vphase>>
vars == <<resolverVars, mergeVars, codecVars, stripVars, runVars, callVars, resolveVars>>

\* What the actions of one component leave alone.
notResolver == <<mergeVars, codecVars, stripVars, runVars, callVars, resolveVars>>
notMerge == <<resolverVars, codecVars, stripVars, runVars, callVars, resolveVars>>
notCodec == <<resolverVars, mergeVars, stripVars, runVars, callVars, resolveVars>>
notStrip == <<resolverVars, mergeVars, codecVars, runVars, callVars, resolveVars>>
notRun == <<resolverVars, mergeVars, codecVars, stripVars, callVars, resolveVars>>
notCalls == <<resolverVars, mergeVars, codecVars, stripVars, resolveVars>>
notResolve == <<resolverVars, mergeVars, codecVars, stripVars, runVars, callVars>>

----------------------------------------------------------------------------
(* Bounds *)

MaxEnv == 3     \* longest environment list
MaxFrags == 3   \* most fragments folded for one provider key
MaxVal == 3     \* longest field value of a resource given to ComposedToYAML
MaxDocs == 3    \* most documents in a YAML stream written by the model
MaxProviders == 2   \* most configs given to Resolve

----------------------------------------------------------------------------
(* Strings *)

EmptyStr == <<>>

EmptyMap == [x \in {} |-> x]

\* strings.HasPrefix(s, p)
HasPrefixStr(s, p) == Len(s) >= Len(p) /\ SubSeq(s, 1, Len(p)) = p

\* strings.HasSuffix(s, p)
HasSuffixStr(s, p) == Len(s) >= Len(p) /\ SubSeq(s, Len(s) - Len(p) + 1, Len(s)) = p

\* strings.Index(s, sep), 1-based; 0 when sep does not occur
IndexStr(s, sep) ==
    LET hits == {i \in 1..(Len(s) - Len(sep) + 1) : SubSeq(s, i, i + Len(sep) - 1) = sep}
    IN IF hits = {} THEN 0 ELSE CHOOSE i \in hits : \A j \in hits : i <= j

\* strings.LastIndex(s, sep), 1-based; 0 when sep does not occur
LastIndexStr(s, sep) ==
    LET hits == {i \in 1..(Len(s) - Len(sep) + 1) : SubSeq(s, i, i + Len(sep) - 1) = sep}
    IN IF hits = {} THEN 0 ELSE CHOOSE i \in hits : \A j \in hits : i >= j

\* strings.Split(s, sep) for a non-empty sep: the pieces between the leftmost
\* non-overlapping occurrences of sep; always at least one piece.
RECURSIVE SplitStr(_, _)
SplitStr(s, sep) ==
    LET i == IndexStr(s, sep)
    IN IF i = 0 THEN <<s>>
       ELSE <<SubSeq(s, 1, i - 1)>> \o SplitStr(SubSeq(s, i + Len(sep), Len(s)), sep)

\* unicode.ToLower on one token
LowerTok(t) ==
    CASE t = "K1" -> "k1"
      [] t = "K2" -> "k2"
      [] t = "FOO" -> "foo"
      [] t = "TRANSPORT" -> "transport"
      [] t = "BASEURL" -> "baseurl"
      [] t = "TRANSPOR" -> "transpor"
      [] t = "BASEU" -> "baseu"
      [] t = "SSE" -> "sse"
      [] t = "http://Local" -> "http://local"
      [] OTHER -> t

\* strings.ToLower
ToLower(s) == [i \in DOMAIN s |-> LowerTok(s[i])]

----------------------------------------------------------------------------
(* internal/tool: Config *)

SSE == <<"sse">>
StreamableHTTP == <<"http-stream">>

Config(t, b) == [Transport |-> t, BaseURL |-> b]

ZeroConfig == Config(EmptyStr, EmptyStr)

ErrNil == "nil"
ErrBaseURLRequired == "invalid mcp config: baseURL required"
ErrTransport == "invalid mcp config: transport must be one of 'sse' or 'http-stream"

\* A plausible slip: the BaseURL check is left out.
ValidNoBaseURLCheck(c) ==
    IF c.Transport \in {SSE, StreamableHTTP} THEN ErrNil ELSE ErrTransport

\* func (c Config) Valid() error
Valid(c) ==
    IF Len(c.BaseURL) = 0 THEN ErrBaseURLRequired
    ELSE IF c.Transport \in {SSE, StreamableHTTP} THEN ErrNil
    ELSE ErrTransport

----------------------------------------------------------------------------
(* internal/tool: Resolver.parse, Resolver.merge, Resolver.FromEnvVars *)

EnvPrefix == <<"MCP_SERVER_TOOL_">>

\* re.FindStringSubmatch(e) for an entry that starts with the literal
\* MCP_SERVER_TOOL_: both groups are greedy (.*), so the key group takes
\* everything up to the LAST "_" of the rest of the entry (the value
\* included) and the type group what follows it.  No "_" in the rest: no
\* match, FindStringSubmatch returns nil.
FindStringSubmatch(e) ==
    LET rest == SubSeq(e, Len(EnvPrefix) + 1, Len(e))
        j == LastIndexStr(rest, <<"_">>)
    IN IF ~HasPrefixStr(e, EnvPrefix) \/ j = 0
       THEN [matched |-> FALSE, key |-> EmptyStr, type |-> EmptyStr]
       ELSE [matched |-> TRUE,
             key |-> SubSeq(rest, 1, j - 1),
             type |-> SubSeq(rest, j + 1, Len(rest))]

ParsePanic == [panic |-> TRUE, key |-> EmptyStr, cfg |-> ZeroConfig]

ParseOk(k, c) == [panic |-> FALSE, key |-> k, cfg |-> c]

\* func (r *Resolver) parse(e string) (string, Config).  matches[i] on a nil
\* match and vtype[1] on a one-element split are index-out-of-range panics.
parse(e) ==
    LET m == FindStringSubmatch(e)
        key == ToLower(m.key)
        cfgtype == ToLower(m.type)
        vtype == SplitStr(cfgtype, <<"=">>)
    IN IF ~m.matched THEN ParsePanic
       ELSE IF vtype[1] = <<"transport">>
            THEN IF Len(vtype) < 2 THEN ParsePanic
                 ELSE ParseOk(key, Config(vtype[2], EmptyStr))
       ELSE IF vtype[1] = <<"baseurl">>
            THEN IF Len(vtype) < 2 THEN ParsePanic
                 ELSE ParseOk(key, Config(EmptyStr, vtype[2]))
       ELSE ParseOk(key, ZeroConfig)

\* A plausible slip: the later fragment wins.
mergeLastWins(currentc, newc) ==
    Config(IF newc.Transport # EmptyStr THEN newc.Transport ELSE currentc.Transport,
           IF newc.BaseURL # EmptyStr THEN newc.BaseURL ELSE currentc.BaseURL)

\* A plausible slip: the guards are left out and new is copied over current.
mergeUnguarded(currentc, newc) == Config(newc.Transport, newc.BaseURL)

\* func (r *Resolver) merge(currentc, newc Config) Config
merge(currentc, newc) ==
    LET t == IF currentc.Transport = EmptyStr /\ newc.Transport # EmptyStr
             THEN newc.Transport ELSE currentc.Transport
        b == IF currentc.BaseURL = EmptyStr /\ newc.BaseURL # EmptyStr
             THEN newc.BaseURL ELSE currentc.BaseURL
    IN Config(t, b)

\* cfgs[k] of a Go map: the zero Config when k is not a key
Lookup(m, k) == IF k \in DOMAIN m THEN m[k] ELSE ZeroConfig

\* cfgs[k] = c
Store(m, k, c) == [x \in DOMAIN m \cup {k} |-> IF x = k THEN c ELSE m[x]]

\* A plausible slip: the validation loop deletes nothing.
DropInvalidKeepsAll(m) == m

\* The validation loop of FromEnvVars: delete every key whose Config is invalid.
DropInvalid(m) ==
    LET keep == {k \in DOMAIN m : Valid(m[k]) = ErrNil}
    IN [k \in keep |-> m[k]]

\* The environment entries the model draws from.
ProviderKeys == {<<"K1">>, <<"k2">>}
FieldNames == {<<"TRANSPORT">>, <<"baseurl">>, <<"TRANSPOR">>}
FieldValues == {<<"sse">>, <<"http-stream">>, <<"http://local">>, <<"http://Local">>,
                <<"http://my", "_", "host">>, <<"http://local?a", "=", "b">>}

WellFormedEntry(k, f, v) == EnvPrefix \o k \o <<"_">> \o f \o <<"=">> \o v

WellFormedEntries ==
    {WellFormedEntry(k, f, v) : k \in ProviderKeys, f \in FieldNames, v \in FieldValues}

OtherEntries ==
    {<<"SOME", "=", "value">>,                           \* SOME=value
     EnvPrefix \o <<"FOO", "=", "bar">>,                 \* MCP_SERVER_TOOL_FOO=bar
     EnvPrefix \o <<"K1", "_", "TRANSPORT">>}            \* MCP_SERVER_TOOL_K1_TRANSPORT

EnvEntries == WellFormedEntries \cup OtherEntries

SeqsUpTo(S, n) == UNION {[1..k -> S] : k \in 0..n}

NoParse == [called |-> FALSE, e |-> EmptyStr, res |-> ParseOk(EmptyStr, ZeroConfig)]

ResolverIdle ==
    /\ ei = 1
    /\ cur = EmptyStr
    /\ cfgs = EmptyMap
    /\ merged = EmptyMap
    /\ verdict = EmptyMap
    /\ rphase = "idle"
    /\ lastParse = NoParse

\* NewResolver, then the first line of FromEnvVars: cfgs := map[string]Config{}
InitResolver ==
    /\ ei = 1
    /\ cur = EmptyStr
    /\ cfgs = EmptyMap
    /\ merged = EmptyMap
    /\ verdict = EmptyMap
    /\ rphase = "scan"
    /\ lastParse = NoParse

\* One iteration of the scan loop on an entry e without the prefix: continue.
FromEnvVarsSkip ==
    \E e \in EnvEntries :
        /\ rphase = "scan"
        /\ ei <= MaxEnv
        /\ ~HasPrefixStr(e, EnvPrefix)
        /\ cur' = e
        /\ ei' = ei + 1
        /\ UNCHANGED <<cfgs, merged, verdict, rphase, lastParse>>
        /\ UNCHANGED notResolver

\* One iteration of the scan loop on a prefixed entry e: parse, then merge
\* into cfgs[k].  A panic in parse ends the call.
FromEnvVarsScan ==
    \E e \in EnvEntries :
        /\ rphase = "scan"
        /\ ei <= MaxEnv
        /\ HasPrefixStr(e, EnvPrefix)
        /\ cur' = e
        /\ LET p == parse(e)
           IN /\ lastParse' = [called |-> TRUE, e |-> e, res |-> p]
              /\ IF p.panic
                 THEN /\ rphase' = "panic"
                      /\ UNCHANGED <<ei, cfgs>>
                 ELSE /\ cfgs' = Store(cfgs, p.key, merge(Lookup(cfgs, p.key), p.cfg))
                      /\ ei' = ei + 1
                      /\ UNCHANGED rphase
        /\ UNCHANGED <<merged, verdict>>
        /\ UNCHANGED notResolver

\* The entries are exhausted: the scan loop ends.
FromEnvVarsScanned ==
    /\ rphase = "scan"
    /\ merged' = cfgs
    /\ rphase' = "validate"
    /\ UNCHANGED <<ei, cur, cfgs, verdict, lastParse>>
    /\ UNCHANGED notResolver

\* The validation loop, then return cfgs.
FromEnvVarsReturn ==
    /\ rphase = "validate"
    /\ verdict' = [k \in DOMAIN cfgs |-> Valid(cfgs[k])]
    /\ cfgs' = DropInvalid(cfgs)
    /\ rphase' = "returned"
    /\ UNCHANGED <<ei, cur, merged, lastParse>>
    /\ UNCHANGED notResolver

NextResolver ==
    \/ FromEnvVarsSkip
    \/ FromEnvVarsScan
    \/ FromEnvVarsScanned
    \/ FromEnvVarsReturn

----------------------------------------------------------------------------
(* Folding the fragments of one provider key with merge, in any order *)

FragTransports == {EmptyStr, <<"sse">>, <<"some-thing">>}
FragBaseURLs == {EmptyStr, <<"http://local">>, <<"some-thing">>}
Fragments == {Config(t, b) : t \in FragTransports, b \in FragBaseURLs}

NoMerge == [called |-> FALSE, currentc |-> ZeroConfig, newc |-> ZeroConfig, res |-> ZeroConfig]

MergeIdle ==
    /\ mfrags = <<>>
    /\ mleft = {}
    /\ macc = ZeroConfig
    /\ mlast = NoMerge

InitMerge ==
    /\ mfrags \in SeqsUpTo(Fragments, MaxFrags)
    /\ mleft = DOMAIN mfrags
    /\ macc = ZeroConfig
    /\ mlast = NoMerge

\* cfgs[k] = r.merge(cfgs[k], newc) for one more fragment of the key
MergeFragment ==
    \E i \in mleft :
        /\ macc' = merge(macc, mfrags[i])
        /\ mlast' = [called |-> TRUE, currentc |-> macc, newc |-> mfrags[i],
                     res |-> merge(macc, mfrags[i])]
        /\ mleft' = mleft \ {i}
        /\ UNCHANGED mfrags
        /\ UNCHANGED notMerge

NextMerge == MergeFragment

----------------------------------------------------------------------------
(* fn.go: the composed-resource codec *)

\* A resource is a function from the paths it sets to their string values:
\* "annotation" is metadata.annotations["upbound.io/name"], "name" is
\* metadata.name, "spec" stands for the rest of the document.
ResourceKeys == {"annotation", "name", "spec"}

\* yaml.JSONToYAML writes the keys of a mapping in sorted order:
\* metadata.annotations, metadata.name, spec.
KeyOrder == <<"annotation", "name", "spec">>

\* The text that opens the line of a path; one token, a scalar follows it.
KeyToken(k) ==
    CASE k = "annotation" -> "upbound.io/name: "
      [] k = "name" -> "name: "
      [] k = "spec" -> "spec: "

KeyTokens == {KeyToken(k) : k \in ResourceKeys}

TokenKey(t) == CHOOSE k \in ResourceKeys : KeyToken(k) = t

Dash3 == <<"-", "-", "-">>
NL == <<"\n">>
\* The grave accent U+0060, the character of a Markdown fence.
Backtick == "U+0060"
Fence == <<Backtick, Backtick, Backtick>>
FenceYAML == <<Backtick, Backtick, Backtick, "yaml">>
Whitespace == {" ", "\n", "\t"}

\* The value of a path whose YAML scalar is empty (null).
YNull == <<"null">>

RECURSIVE TrimLeft(_)
TrimLeft(s) == IF s # <<>> /\ s[1] \in Whitespace THEN TrimLeft(Tail(s)) ELSE s

RECURSIVE TrimRight(_)
TrimRight(s) ==
    IF s # <<>> /\ s[Len(s)] \in Whitespace THEN TrimRight(SubSeq(s, 1, Len(s) - 1)) ELSE s

\* strings.TrimSpace
TrimSpace(s) == TrimRight(TrimLeft(s))

\* strings.TrimPrefix
TrimPrefix(s, p) == IF HasPrefixStr(s, p) THEN SubSeq(s, Len(p) + 1, Len(s)) ELSE s

\* strings.TrimSuffix
TrimSuffix(s, p) == IF HasSuffixStr(s, p) THEN SubSeq(s, 1, Len(s) - Len(p)) ELSE s

\* func removeYAMLMarkdown(in string) string
removeYAMLMarkdown(in) ==
    LET wsRemoved == TrimSpace(in)
        yamlPrefix == TrimPrefix(wsRemoved, FenceYAML)
    IN TrimSuffix(yamlPrefix, Fence)

\* sjson.SetBytes(jocd, "metadata.annotations.upbound\\.io/name", name)
SetBytes(r, name) ==
    [k \in DOMAIN r \cup {"annotation"} |-> IF k = "annotation" THEN name ELSE r[k]]

\* The YAML encoder writes a string plain unless that would not read back as
\* the same string: the empty string, a lone "-" and a string that starts
\* with the document marker are single-quoted.
NeedsQuote(v) == v = <<>> \/ v = <<"-">> \/ HasPrefixStr(v, Dash3)

ScalarToYAML(v) == IF NeedsQuote(v) THEN <<"'">> \o v \o <<"'">> ELSE v

RECURSIVE EmitKeys(_, _)
EmitKeys(r, i) ==
    IF i > Len(KeyOrder) THEN <<>>
    ELSE (IF KeyOrder[i] \in DOMAIN r
          THEN <<KeyToken(KeyOrder[i])>> \o ScalarToYAML(r[KeyOrder[i]]) \o NL
          ELSE <<>>) \o EmitKeys(r, i + 1)

\* yaml.JSONToYAML(jocd): one line per path, "{}" for the empty document.
JSONToYAML(r) == IF DOMAIN r = {} THEN <<"{}">> \o NL ELSE EmitKeys(r, 1)

\* func ComposedToYAML(cds map[string]*fnv1.Resource) (string, error), the
\* range over the map visiting the names in the given order.
RECURSIVE ComposedToYAML(_, _)
ComposedToYAML(cds, order) ==
    IF order = <<>> THEN <<>>
    ELSE Dash3 \o NL \o JSONToYAML(SetBytes(cds[Head(order)], Head(order)))
         \o ComposedToYAML(cds, Tail(order))

\* The orders in which a range over the map S can visit its keys.
Orders(S) == {o \in [1..Cardinality(S) -> S] : \A i, j \in DOMAIN o : i # j => o[i] # o[j]}

ErrYAML == "cannot parse YAML"
ErrJSON == "cannot parse JSON"
ErrMissing == "missing 'upbound.io/name' annotation"
ErrNotUnique == "'upbound.io/name' annotation must be unique within the YAML stream"

\* The scalar that follows a key, or that makes up a line.
ParseScalar(t) ==
    LET u == TrimRight(t)
    IN IF u = <<>> THEN [ok |-> TRUE, quoted |-> FALSE, val |-> YNull]
       ELSE IF u[1] = "'"
            THEN IF Len(u) >= 2 /\ u[Len(u)] = "'" /\ \A i \in 2..(Len(u) - 1) : u[i] # "'"
                 THEN [ok |-> TRUE, quoted |-> TRUE, val |-> SubSeq(u, 2, Len(u) - 1)]
                 ELSE [ok |-> FALSE, quoted |-> TRUE, val |-> <<>>]
       ELSE IF u[1] = Backtick \/ \E i \in DOMAIN u : u[i] \in KeyTokens \cup {"{}"}
            THEN [ok |-> FALSE, quoted |-> FALSE, val |-> <<>>]
       ELSE [ok |-> TRUE, quoted |-> FALSE, val |-> u]

\* One non-blank line of a document.
ParseLine(line) ==
    IF line[1] \in KeyTokens
    THEN LET sc == ParseScalar(Tail(line))
         IN [kind |-> IF sc.ok THEN "pair" ELSE "bad", key |-> TokenKey(line[1]), val |-> sc.val]
    ELSE IF TrimRight(line) = <<"{}">>
    THEN [kind |-> "emptymap", key |-> "", val |-> <<>>]
    ELSE LET sc == ParseScalar(line)
         IN [kind |-> IF ~sc.ok THEN "bad" ELSE IF sc.quoted THEN "quoted" ELSE "plain",
             key |-> "", val |-> sc.val]

IsBlank(line) == \A i \in DOMAIN line : line[i] \in Whitespace

NotBlank(line) == ~IsBlank(line)

JSONNull == [kind |-> "null", obj |-> EmptyMap]
JSONScalar == [kind |-> "scalar", obj |-> EmptyMap]
JSONObject(o) == [kind |-> "object", obj |-> o]

\* yaml.YAMLToJSON(doc): a document of key lines is an object (a repeated key
\* keeps its last value), a document without content is null, plain lines
\* without a key fold into one scalar, and anything else does not parse.
YAMLToJSON(doc) ==
    LET lines == SelectSeq(SplitStr(doc, NL), NotBlank)
        parsed == [i \in DOMAIN lines |-> ParseLine(lines[i])]
        kinds == {parsed[i].kind : i \in DOMAIN lines}
        keys == {parsed[i].key : i \in DOMAIN lines}
        last(k) == CHOOSE i \in DOMAIN lines :
                       /\ parsed[i].key = k
                       /\ \A j \in DOMAIN lines : parsed[j].key = k => j <= i
    IN IF lines = <<>> THEN [err |-> ErrNil, j |-> JSONNull]
       ELSE IF "bad" \in kinds THEN [err |-> ErrYAML, j |-> JSONNull]
       ELSE IF kinds = {"pair"}
            THEN [err |-> ErrNil, j |-> JSONObject([k \in keys |-> parsed[last(k)].val])]
       ELSE IF "pair" \in kinds THEN [err |-> ErrYAML, j |-> JSONNull]
       ELSE IF Len(lines) = 1 /\ kinds = {"emptymap"}
            THEN [err |-> ErrNil, j |-> JSONObject(EmptyMap)]
       ELSE IF kinds = {"plain"} \/ Len(lines) = 1 THEN [err |-> ErrNil, j |-> JSONScalar]
       ELSE [err |-> ErrYAML, j |-> JSONNull]

\* protojson.Unmarshal(j, s) into a structpb.Struct: only an object is one.
Unmarshal(j) == IF j.kind = "object" THEN ErrNil ELSE ErrJSON

\* gjson.GetBytes(j, path).String(): "" for a missing path and for null.
GetString(j, path) ==
    IF j.kind = "object" /\ path \in DOMAIN j.obj /\ j.obj[path] # YNull
    THEN j.obj[path] ELSE EmptyStr

\* A plausible slip: a repeated name is not looked for.
CheckIdentityNoSeen(name, out) == IF name = EmptyStr THEN ErrMissing ELSE ErrNil

\* A plausible slip: an empty name is not looked for.
CheckIdentityNoMissing(name, out) == IF name \in DOMAIN out THEN ErrNotUnique ELSE ErrNil

\* The two identity checks ComposedFromYAML makes on a document's name.
CheckIdentity(name, out) ==
    IF name = EmptyStr THEN ErrMissing
    ELSE IF name \in DOMAIN out THEN ErrNotUnique
    ELSE ErrNil

\* return nil, err.  acc is what out held when the error was met.
DecodeError(e, name, acc) == [err |-> e, name |-> name, isNil |-> TRUE, out |-> EmptyMap, acc |-> acc]

\* return out, nil
DecodeOk(out) == [err |-> ErrNil, name |-> EmptyStr, isNil |-> FALSE, out |-> out, acc |-> out]

\* The loop of ComposedFromYAML over docs, from document i on.
RECURSIVE FromYAMLLoop(_, _, _)
FromYAMLLoop(docs, i, out) ==
    IF i > Len(docs) THEN DecodeOk(out)
    ELSE IF docs[i] = <<>> THEN FromYAMLLoop(docs, i + 1, out)
    ELSE LET y == YAMLToJSON(docs[i])
             name == GetString(y.j, "annotation")
         IN IF y.err # ErrNil THEN DecodeError(ErrYAML, EmptyStr, out)
            ELSE IF Unmarshal(y.j) # ErrNil THEN DecodeError(ErrJSON, EmptyStr, out)
            ELSE IF CheckIdentity(name, out) # ErrNil
                 THEN DecodeError(CheckIdentity(name, out), name, out)
            ELSE FromYAMLLoop(docs, i + 1,
                     [n \in DOMAIN out \cup {name} |-> IF n = name THEN y.j.obj ELSE out[n]])

\* func ComposedFromYAML(y string) (map[string]*fnv1.Resource, error)
ComposedFromYAML(y) == FromYAMLLoop(SplitStr(y, Dash3), 1, EmptyMap)

\* The field values of the resources to encode: every text of "a" and "-"
\* of at most MaxVal characters.
SpecValues == SeqsUpTo({"a", "-"}, MaxVal)

\* Resources observed by the caller; an annotation they carry is overwritten.
EncResources ==
    {r \in UNION {[D -> SpecValues \cup {<<"b">>}] : D \in SUBSET {"annotation", "spec"}} :
        /\ ("annotation" \in DOMAIN r => r["annotation"] = <<"b">>)
        /\ ("spec" \in DOMAIN r => r["spec"] \in SpecValues)}

\* Names of composed resources: non-empty, distinct as keys of a map.
CNames == {<<"a">>, <<"b">>}

NamedResources == UNION {[D -> EncResources] : D \in SUBSET CNames}

\* The documents a model can write: with and without an annotation, with an
\* empty one, a bare scalar, and nothing at all between two markers.
StreamResources ==
    {r \in UNION {[D -> {<<>>, <<"a">>, <<"b">>}] : D \in SUBSET {"annotation", "spec"}} :
        "spec" \in DOMAIN r => r["spec"] = <<"a">>}

StreamDocs == {JSONToYAML(r) : r \in StreamResources} \cup {<<"a", "\n">>, <<>>}

RECURSIVE StreamText(_)
StreamText(docs) ==
    IF docs = <<>> THEN <<>> ELSE Dash3 \o NL \o Head(docs) \o StreamText(Tail(docs))

Streams == {StreamText(docs) : docs \in SeqsUpTo(StreamDocs, MaxDocs)}

NoResult == [err |-> "pending", name |-> EmptyStr, isNil |-> TRUE, out |-> EmptyMap, acc |-> EmptyMap]

CodecIdle ==
    /\ composed = EmptyMap
    /\ ytext = <<>>
    /\ cphase = "idle"
    /\ cres = NoResult

\* Either resources about to be encoded, or a stream that came from the model.
InitCodec ==
    /\ cres = NoResult
    /\ \/ /\ composed \in NamedResources
          /\ ytext = <<>>
          /\ cphase = "start"
       \/ /\ composed = EmptyMap
          /\ ytext \in Streams
          /\ cphase = "stream"

\* cds, err := ComposedToYAML(...)
ComposedToYAMLStep ==
    /\ cphase = "start"
    /\ \E order \in Orders(DOMAIN composed) : ytext' = ComposedToYAML(composed, order)
    /\ cphase' = "encoded"
    /\ UNCHANGED <<composed, cres>>
    /\ UNCHANGED notCodec

\* dcds, err := ComposedFromYAML(...)
ComposedFromYAMLStep ==
    /\ cphase \in {"encoded", "stream"}
    /\ cres' = ComposedFromYAML(ytext)
    /\ cphase' = IF cphase = "encoded" THEN "roundtrip" ELSE "decoded"
    /\ UNCHANGED <<composed, ytext>>
    /\ UNCHANGED notCodec

NextCodec ==
    \/ ComposedToYAMLStep
    \/ ComposedFromYAMLStep

\* The replies removeYAMLMarkdown is given: white space, an opening fence,
\* a body, closing fences and white space, each of them optional.
Padding == {<<>>, NL, <<" ">>}
StripInputs ==
    {w1 \o pre \o w2 \o body \o w3 \o suf \o w4 :
        w1 \in Padding, w2 \in Padding, w3 \in Padding, w4 \in Padding,
        pre \in {<<>>, FenceYAML, Fence},
        body \in {<<>>, <<"a">>},
        suf \in {<<>>, Fence, Fence \o Fence}}

StripIdle ==
    /\ sin = <<>>
    /\ souts = <<>>

InitStrip ==
    /\ sin \in StripInputs
    /\ souts = <<>>

\* removeYAMLMarkdown applied to the reply, then to its own result.
removeYAMLMarkdownStep ==
    /\ Len(souts) < 2
    /\ souts' = Append(souts, removeYAMLMarkdown(IF souts = <<>> THEN sin ELSE souts[Len(souts)]))
    /\ UNCHANGED sin
    /\ UNCHANGED notStrip

NextStrip == removeYAMLMarkdownStep

----------------------------------------------------------------------------
(* fn.go: RunFunction and its two pipelines *)

\* A desired state: the nil pointer, or a State with its Resources map.
NilState == [isNil |-> TRUE, resources |-> EmptyMap]
State(m) == [isNil |-> FALSE, resources |-> m]

\* A plausible slip: the decoded resources are added to those already there.
SetResourcesMerged(st, m) ==
    State([n \in DOMAIN st.resources \cup DOMAIN m |->
              IF n \in DOMAIN m THEN m[n] ELSE st.resources[n]])

\* d.rsp.Desired.Resources = m, for a Desired that is not nil
SetResources(st, m) == State(m)

\* response.To(req, response.DefaultTTL): the response starts with the
\* request's desired state, no results and no conditions.
To(q) == [desired |-> q.desired, results |-> <<>>, conditions |-> <<>>]

NoResponse == [desired |-> NilState, results |-> <<>>, conditions |-> <<>>]

\* response.Fatal(rsp, err)
Fatal(p, msg) == [p EXCEPT !.results = Append(@, [severity |-> "FATAL", message |-> msg])]

\* response.Normal(rsp, msg)
Normal(p, msg) == [p EXCEPT !.results = Append(@, [severity |-> "NORMAL", message |-> msg])]

\* response.ConditionTrue(rsp, "FunctionSuccess", "Success")
ConditionTrue(p) ==
    [p EXCEPT !.conditions =
        Append(@, [type |-> "FunctionSuccess", status |-> "True", reason |-> "Success"])]

\* A plausible slip: the marker counts whatever its value.
shouldIgnoreAnyValue(q) == q.ignored # "absent"

\* func (f *Function) shouldIgnore(req) bool: the marker is there, is a
\* boolean and is true.
shouldIgnore(q) == q.ignored = "true"

\* A plausible slip: the desired state is looked at, not the observed composite.
inCompositionPipelineByDesired(q) == ~q.desired.isNil

\* func inCompositionPipeline(req) bool
inCompositionPipeline(q) == q.composite

\* The fields a prompt template can use in each mode.
Variables == {"Composite", "Composed"}
OperationVariables == {"Input", "Resources"}

\* A plausible slip: a field the mode does not expose renders as nothing.
ExecutesLenient(t, fields) == TRUE

\* userPrompt.Execute(...) succeeds when the template uses known fields only.
Executes(t, fields) == t.fields \subseteq fields

MaxWatched == 2   \* most resources under ops.crossplane.io/watched-resource

Templates ==
    {[parses |-> FALSE, fields |-> {}]} \cup
    {[parses |-> TRUE, fields |-> F] : F \in {{}, {"Composite"}, {"Resources"}, {"Unknown"}}}

WatchedResources ==
    {[present |-> FALSE, n |-> 0]} \cup {[present |-> TRUE, n |-> k] : k \in 0..MaxWatched}

\* req.encodes: whether the observed composite and composed resources
\* (composition) and the required resources (operation) convert to JSON;
\* protojson.Marshal fails on a number that is NaN or infinite.
\* What a request can carry in as desired state from earlier steps.
DesiredStates == {NilState, State(EmptyMap), State(<<"b">> :> [spec |-> <<"-">>])}

Requests ==
    [ignored : {"absent", "true", "false", "nonbool"},
     input : {"ok", "bad"},
     cred : {"none", "wrongtype", "nokey", "ok"},
     composite : BOOLEAN,
     desired : DesiredStates,
     template : Templates,
     encodes : BOOLEAN,
     watched : WatchedResources]

ZeroRequest ==
    [ignored |-> "absent", input |-> "ok", cred |-> "none", composite |-> FALSE,
     desired |-> NilState, template |-> [parses |-> FALSE, fields |-> {}],
     encodes |-> TRUE,
     watched |-> [present |-> FALSE, n |-> 0]]

\* One composed resource as the model writes it.
ReplyDoc(name) == JSONToYAML([annotation |-> name, spec |-> <<"a">>])

\* Replies of the model to a composition prompt: a stream of one and of two
\* documents, a document without the marker, a fenced stream, a repeated
\* name, a document without a name, a broken document, prose and nothing.
CompositionReplies ==
    {StreamText(<<ReplyDoc(<<"a">>)>>),
     StreamText(<<ReplyDoc(<<"a">>), ReplyDoc(<<"b">>)>>),
     ReplyDoc(<<"a">>),
     FenceYAML \o NL \o StreamText(<<ReplyDoc(<<"a">>)>>) \o Fence,
     FenceYAML \o NL \o ReplyDoc(<<"a">>) \o Fence,
     StreamText(<<ReplyDoc(<<"a">>), ReplyDoc(<<"a">>)>>),
     StreamText(<<ReplyDoc(<<"a">>), JSONToYAML([spec |-> <<"a">>])>>),
     <<"spec: ", "'", "a", "\n">>,
     <<"a">>,
     <<>>}

\* Replies of the model to an operation prompt: a document with and without
\* metadata.name, prose, a broken document and nothing.
OperationReplies ==
    {JSONToYAML([name |-> <<"a">>, spec |-> <<"a">>]),
     JSONToYAML([spec |-> <<"a">>]),
     <<"a">>,
     <<"spec: ", "'", "a", "\n">>,
     <<>>}

NoReply == [err |-> FALSE, text |-> <<>>]

JSONInvalid == [kind |-> "invalid", obj |-> EmptyMap]

\* A plausible slip: the name is read where ComposedFromYAML reads it, from
\* the upbound.io/name annotation.
resourceFromKeyedByAnnotation(i) ==
    LET y == YAMLToJSON(i)
        jb == IF y.err # ErrNil THEN JSONInvalid ELSE y.j
    IN IF Unmarshal(jb) # ErrNil THEN DecodeError(ErrJSON, EmptyStr, EmptyMap)
       ELSE DecodeOk(GetString(jb, "annotation") :> jb.obj)

\* func (f *Function) resourceFrom(i string) (map[string]*fnv1.Resource, error).
\* Text that is not YAML is tried as JSON as it stands, and is not JSON.
resourceFrom(i) ==
    LET y == YAMLToJSON(i)
        jb == IF y.err # ErrNil THEN JSONInvalid ELSE y.j
    IN IF Unmarshal(jb) # ErrNil THEN DecodeError(ErrJSON, EmptyStr, EmptyMap)
       ELSE DecodeOk(GetString(jb, "name") :> jb.obj)

RunIdle ==
    /\ req = ZeroRequest
    /\ rsp = NoResponse
    /\ pc = "idle"
    /\ mode = "none"
    /\ rerr = FALSE
    /\ invoked = 0
    /\ reply = NoReply
    /\ decoded = NoResult

InitRun ==
    /\ req \in Requests
    /\ rsp = NoResponse
    /\ pc = "start"
    /\ mode = "none"
    /\ rerr = FALSE
    /\ invoked = 0
    /\ reply = NoReply
    /\ decoded = NoResult

\* return rsp, err
Return(p, e) ==
    /\ rsp' = p
    /\ rerr' = e
    /\ pc' = "returned"

\* RunFunction up to the choice of the pipeline.
RunFunction ==
    /\ pc = "start"
    /\ IF shouldIgnore(req)
       THEN /\ Return(Normal(ConditionTrue(To(req)), <<"received an ignored resource, skipping">>), FALSE)
            /\ UNCHANGED mode
       ELSE IF req.input = "bad"
       THEN /\ Return(Fatal(To(req), <<"cannot get Function input">>), TRUE)
            /\ UNCHANGED mode
       ELSE IF req.cred = "none"
       THEN /\ Return(Fatal(To(req), <<"cannot get OPENAI_API_KEY from credential">>), TRUE)
            /\ UNCHANGED mode
       ELSE IF req.cred = "wrongtype"
       THEN /\ Return(Fatal(To(req), <<"expected credential to be Data">>), FALSE)
            /\ UNCHANGED mode
       ELSE IF req.cred = "nokey"
       THEN /\ Return(Fatal(To(req), <<"credential is missing required key">>), FALSE)
            /\ UNCHANGED mode
       ELSE /\ rsp' = To(req)
            /\ mode' = IF inCompositionPipeline(req) THEN "composition" ELSE "operation"
            /\ pc' = mode'
            /\ UNCHANGED rerr
    /\ UNCHANGED <<req, invoked, reply, decoded>>
    /\ UNCHANGED notRun

\* compositionPipeline up to the call of the model.
compositionPipelinePrompt ==
    /\ pc = "composition"
    /\ IF ~req.template.parses
       THEN Return(Fatal(rsp, <<"cannot parse userPrompt">>), TRUE)
       ELSE IF ~req.encodes
       THEN Return(Fatal(rsp, <<"cannot convert observed XR to YAML">>), TRUE)
       ELSE IF ~Executes(req.template, Variables)
       THEN Return(Fatal(rsp, <<"cannot build prompt from template">>), TRUE)
       ELSE /\ pc' = "invoke"
            /\ UNCHANGED <<rsp, rerr>>
    /\ UNCHANGED <<req, mode, invoked, reply, decoded>>
    /\ UNCHANGED notRun

\* operationPipeline up to the call of the model.
operationPipelinePrompt ==
    /\ pc = "operation"
    /\ IF ~req.template.parses
       THEN Return(Fatal(rsp, <<"failed to parse UserPrompt as a go-template">>), TRUE)
       ELSE IF req.watched.n > 0 /\ ~req.encodes
       THEN Return(Fatal(rsp, <<"cannot get Function extra resources">>), TRUE)
       ELSE IF ~req.watched.present
       THEN Return(ConditionTrue(rsp), FALSE)
       ELSE IF req.watched.n # 1
       THEN Return(Fatal(rsp, <<"too many resources sent to the function. expected 1">>), FALSE)
       ELSE IF ~Executes(req.template, OperationVariables)
       THEN Return(Fatal(rsp, <<"cannot build prompt from template">>), TRUE)
       ELSE /\ pc' = "invoke"
            /\ UNCHANGED <<rsp, rerr>>
    /\ UNCHANGED <<req, mode, invoked, reply, decoded>>
    /\ UNCHANGED notRun

\* A plausible slip: a failed call of the model is made once more.
InvokeWithRetry ==
    /\ pc = "invoke"
    /\ \/ /\ \E text \in (IF mode = "composition" THEN CompositionReplies ELSE OperationReplies) :
                 reply' = [err |-> FALSE, text |-> text]
          /\ pc' = "replied"
       \/ /\ reply' = [err |-> TRUE, text |-> <<>>]
          /\ pc' = IF invoked = 0 THEN "invoke" ELSE "replied"
    /\ invoked' = invoked + 1
    /\ UNCHANGED <<req, rsp, mode, rerr, decoded>>
    /\ UNCHANGED notRun

\* resp, err := f.ai.Invoke(...): the model answers, or the call fails.
Invoke ==
    /\ pc = "invoke"
    /\ \/ \E text \in (IF mode = "composition" THEN CompositionReplies ELSE OperationReplies) :
              reply' = [err |-> FALSE, text |-> text]
       \/ reply' = [err |-> TRUE, text |-> <<>>]
    /\ invoked' = invoked + 1
    /\ pc' = "replied"
    /\ UNCHANGED <<req, rsp, mode, rerr, decoded>>
    /\ UNCHANGED notRun

\* A plausible slip: the decoded resources are assigned before the error of
\* the decoding is looked at.
compositionPipelineReplyAssignsFirst ==
    /\ pc = "replied"
    /\ mode = "composition"
    /\ LET dcds == ComposedFromYAML(removeYAMLMarkdown(reply.text))
       IN IF reply.err
          THEN /\ Return(Fatal(rsp, <<"failed to run chain">>), TRUE)
               /\ UNCHANGED decoded
          ELSE /\ decoded' = dcds
               /\ IF rsp.desired.isNil
                  THEN /\ pc' = "panic"
                       /\ UNCHANGED <<rsp, rerr>>
                  ELSE IF dcds.err # ErrNil
                  THEN Return(Fatal([rsp EXCEPT !.desired = SetResources(@, dcds.out)],
                                    <<"did not receive a YAML stream from GPT", dcds.err>>), TRUE)
                  ELSE Return([rsp EXCEPT !.desired = SetResources(@, dcds.out)], FALSE)
    /\ UNCHANGED <<req, mode, invoked, reply>>
    /\ UNCHANGED notRun

\* compositionPipeline from the reply on.
compositionPipelineReply ==
    /\ pc = "replied"
    /\ mode = "composition"
    /\ LET dcds == ComposedFromYAML(removeYAMLMarkdown(reply.text))
       IN IF reply.err
          THEN /\ Return(Fatal(rsp, <<"failed to run chain">>), TRUE)
               /\ UNCHANGED decoded
          ELSE /\ decoded' = dcds
               /\ IF dcds.err # ErrNil
                  THEN Return(Fatal(rsp, <<"did not receive a YAML stream from GPT", dcds.err>>), TRUE)
                  ELSE IF rsp.desired.isNil
                  THEN /\ pc' = "panic"
                       /\ UNCHANGED <<rsp, rerr>>
                  ELSE Return([rsp EXCEPT !.desired = SetResources(@, dcds.out)], FALSE)
    /\ UNCHANGED <<req, mode, invoked, reply>>
    /\ UNCHANGED notRun

\* A plausible slip: the FunctionSuccess condition is set before the error of
\* the call of the model is looked at.
operationPipelineReplyMarksFirst ==
    /\ pc = "replied"
    /\ mode = "operation"
    /\ LET desired == resourceFrom(reply.text)
           reported == Normal(ConditionTrue(rsp), reply.text)
       IN IF reply.err
          THEN /\ Return(Fatal(ConditionTrue(rsp), <<"failed to run chain">>), TRUE)
               /\ UNCHANGED decoded
          ELSE /\ decoded' = desired
               /\ IF rsp.desired.isNil
                  THEN /\ rsp' = reported
                       /\ pc' = "panic"
                       /\ UNCHANGED rerr
                  ELSE Return([reported EXCEPT !.desired = SetResources(@, desired.out)], FALSE)
    /\ UNCHANGED <<req, mode, invoked, reply>>
    /\ UNCHANGED notRun

\* operationPipeline from the reply on.
operationPipelineReply ==
    /\ pc = "replied"
    /\ mode = "operation"
    /\ LET desired == resourceFrom(reply.text)
           reported == Normal(ConditionTrue(rsp), reply.text)
       IN IF reply.err
          THEN /\ Return(Fatal(rsp, <<"failed to run chain">>), TRUE)
               /\ UNCHANGED decoded
          ELSE /\ decoded' = desired
               /\ IF rsp.desired.isNil
                  THEN /\ rsp' = reported
                       /\ pc' = "panic"
                       /\ UNCHANGED rerr
                  ELSE Return([reported EXCEPT !.desired = SetResources(@, desired.out)], FALSE)
    /\ UNCHANGED <<req, mode, invoked, reply>>
    /\ UNCHANGED notRun

NextRun ==
    \/ RunFunction
    \/ compositionPipelinePrompt
    \/ operationPipelinePrompt
    \/ Invoke
    \/ compositionPipelineReply
    \/ operationPipelineReply

-----------------------------------------------------------------------------
(* Two RunFunction calls at once *)

\* The gRPC server runs RunFunction once per request, each call on a goroutine
\* of its own, all on the one *Function. The locals of a call (req, rsp, d,
\* resp, dcds, ...) are its own; the receiver holds only ai and log, which no
\* call assigns. The variables req .. decoded are the locals of the call that
\* is running, other those of the call that is not.
NewCall(q) ==
    [req |-> q, rsp |-> NoResponse, pc |-> "start", mode |-> "none", rerr |-> FALSE,
     invoked |-> 0, reply |-> NoReply, decoded |-> NoResult]

IdleCall == [NewCall(ZeroRequest) EXCEPT !.pc = "idle"]

Cur ==
    [req |-> req, rsp |-> rsp, pc |-> pc, mode |-> mode, rerr |-> rerr,
     invoked |-> invoked, reply |-> reply, decoded |-> decoded]

\* The requests of the two calls: with and without a credential, of either
\* pipeline, with and without desired resources carried in.
CallRequests ==
    {q \in Requests :
        /\ q.ignored = "absent"
        /\ q.input = "ok"
        /\ q.cred \in {"ok", "none"}
        /\ q.desired # NilState
        /\ q.template = [parses |-> TRUE, fields |-> {}]
        /\ q.encodes
        /\ q.watched = [present |-> TRUE, n |-> 1]}

CallsIdle == other = IdleCall

InitCalls ==
    /\ req \in CallRequests
    /\ rsp = NoResponse
    /\ pc = "start"
    /\ mode = "none"
    /\ rerr = FALSE
    /\ invoked = 0
    /\ reply = NoReply
    /\ decoded = NoResult
    /\ other \in {NewCall(q) : q \in CallRequests}

\* A plausible slip: the response under construction is kept in the Function,
\* so that the call that runs next finds it.
SwitchSharingResponse ==
    /\ other.pc # "idle"
    /\ req' = other.req
    /\ rsp' = rsp
    /\ pc' = other.pc
    /\ mode' = other.mode
    /\ rerr' = other.rerr
    /\ invoked' = other.invoked
    /\ reply' = other.reply
    /\ decoded' = other.decoded
    /\ other' = Cur
    /\ UNCHANGED notCalls

\* The scheduler takes the running call off and puts the other call on; each
\* call finds its locals as it left them.
Switch ==
    /\ other.pc # "idle"
    /\ req' = other.req
    /\ rsp' = other.rsp
    /\ pc' = other.pc
    /\ mode' = other.mode
    /\ rerr' = other.rerr
    /\ invoked' = other.invoked
    /\ reply' = other.reply
    /\ decoded' = other.decoded
    /\ other' = Cur
    /\ UNCHANGED notCalls

NextCalls ==
    \/ RunFunction
    \/ compositionPipelinePrompt
    \/ operationPipelinePrompt
    \/ Invoke
    \/ compositionPipelineReply
    \/ operationPipelineReply
    \/ Switch

-----------------------------------------------------------------------------------------------------------------------------------------
(* Resolve *)

\* What one MCP server does when Resolve comes to it: the first of the four
\* steps that fails, if any, and the tools it offers when none does.
Failures == {"none", "new", "start", "adapter", "tools"}

ToolLists == {<<>>, <<"x">>, <<"y", "z">>}

ValidConfigs == {c \in {Config(t, <<"u">>) : t \in {SSE, StreamableHTTP}} : Valid(c) = ErrNil}

Providers == [cfg : ValidConfigs, fails : Failures, offers : ToolLists]

ProviderLists == UNION {[1..n -> Providers] : n \in 0..MaxProviders}

ResolveIdle ==
    /\ provs = <<>>
    /\ pidx = 0
    /\ tools = <<>>
    /\ opened = {}
    /\ vphase = "idle"

\* res := make([]tools.Tool, 0)
InitResolve ==
    /\ provs \in ProviderLists
    /\ pidx = 1
    /\ tools = <<>>
    /\ opened = {}
    /\ vphase = "loop"

\* A plausible slip: a failure ends Resolve (return res) where the code goes
\* on with the next config (continue).
ResolveConfigReturnsOnFailure ==
    /\ vphase = "loop"
    /\ pidx <= Len(provs)
    /\ LET v == provs[pidx]
       IN /\ tools' = IF v.fails = "none" THEN tools \o v.offers ELSE tools
          /\ opened' = IF v.fails \in {"new", "start"} THEN opened ELSE opened \cup {pidx}
          /\ vphase' = IF v.fails = "none" THEN "loop" ELSE "returned"
    /\ pidx' = pidx + 1
    /\ UNCHANGED provs
    /\ UNCHANGED notResolve

\* One iteration of for _, v := range cfgs: the client is made for the
\* transport of v and started, the adapter is made, the tools are asked for
\* and appended to res. A step that fails is logged and the loop continues.
\* No statement of the body closes mc.
ResolveConfig ==
    /\ vphase = "loop"
    /\ pidx <= Len(provs)
    /\ LET v == provs[pidx]
       IN /\ tools' = IF v.fails = "none" THEN tools \o v.offers ELSE tools
          /\ opened' = IF v.fails \in {"new", "start"} THEN opened ELSE opened \cup {pidx}
    /\ pidx' = pidx + 1
    /\ UNCHANGED <<provs, vphase>>
    /\ UNCHANGED notResolve

\* return res
ResolveReturn ==
    /\ vphase = "loop"
    /\ pidx > Len(provs)
    /\ vphase' = "returned"
    /\ UNCHANGED <<provs, pidx, tools, opened>>
    /\ UNCHANGED notResolve

NextResolve ==
    \/ ResolveConfig
    \/ ResolveReturn

----------------
(* Properties of the resolver *)

\* The Config a field selector f and a value v stand for.
FieldConfig(f, v) ==
    IF ToLower(f) = <<"transport">> THEN Config(v, EmptyStr)
    ELSE IF ToLower(f) = <<"baseurl">> THEN Config(EmptyStr, v)
    ELSE ZeroConfig

\* Each field is set by at most one fragment of fs.
AtMostOneSetter(fs) ==
    /\ Cardinality({i \in DOMAIN fs : fs[i].Transport # EmptyStr}) <= 1
    /\ Cardinality({i \in DOMAIN fs : fs[i].BaseURL # EmptyStr}) <= 1

\* The value the only setter of a field gives it, "" when nobody sets it.
OnlyValue(S) == IF S = {} THEN EmptyStr ELSE CHOOSE x \in S : TRUE

FieldUnion(fs) ==
    Config(OnlyValue({fs[i].Transport : i \in DOMAIN fs} \ {EmptyStr}),
           OnlyValue({fs[i].BaseURL : i \in DOMAIN fs} \ {EmptyStr}))

\* C5: when each field is set by at most one fragment, folding the fragments
\* of a key with merge from the empty Config gives the same Config in every
\* order of application (here: the Config holding each field's only value);
\* {transport: sse} and {baseURL: http://local} give {sse, http://local}.
C5_MergeOrderIndependent ==
    (mleft = {} /\ AtMostOneSetter(mfrags)) =>
        /\ macc = FieldUnion(mfrags)
        /\ (\E i, j \in DOMAIN mfrags :
                /\ Len(mfrags) = 2
                /\ mfrags[i] = Config(<<"sse">>, EmptyStr)
                /\ mfrags[j] = Config(EmptyStr, <<"http://local">>))
           => macc = Config(<<"sse">>, <<"http://local">>)

\* C5 witness: the two fragments of the example were applied baseURL first.
C5_Witness ==
    /\ mleft = {}
    /\ mfrags = <<Config(<<"sse">>, EmptyStr), Config(EmptyStr, <<"http://local">>)>>
    /\ mlast.called
    /\ mlast.newc = Config(<<"sse">>, EmptyStr)
    /\ macc = Config(<<"sse">>, <<"http://local">>)

\* C6: merge(current, new) is first-write-wins per field: each of Transport
\* and BaseURL is current's value when that is non-empty and new's otherwise.
C6_MergeFirstWriteWins ==
    mlast.called =>
        /\ mlast.res.Transport = (IF mlast.currentc.Transport # EmptyStr
                                  THEN mlast.currentc.Transport ELSE mlast.newc.Transport)
        /\ mlast.res.BaseURL = (IF mlast.currentc.BaseURL # EmptyStr
                                THEN mlast.currentc.BaseURL ELSE mlast.newc.BaseURL)

\* C6 witness: both Configs set both fields, to different values.
C6_Witness ==
    /\ mlast.called
    /\ mlast.currentc.Transport # EmptyStr
    /\ mlast.newc.Transport # EmptyStr
    /\ mlast.currentc.Transport # mlast.newc.Transport
    /\ mlast.currentc.BaseURL # EmptyStr
    /\ mlast.newc.BaseURL # EmptyStr
    /\ mlast.currentc.BaseURL # mlast.newc.BaseURL
    /\ mlast.res = mlast.currentc

\* C7: Valid returns no error exactly when BaseURL is non-empty and Transport
\* is "sse" or "http-stream": for every Config the validation loop judged, and
\* for the four Configs of TestValidate.
C7_ValidIff ==
    /\ rphase = "returned" =>
          \A k \in DOMAIN verdict :
              (verdict[k] = ErrNil) <=>
                  /\ merged[k].BaseURL # EmptyStr
                  /\ merged[k].Transport \in {<<"sse">>, <<"http-stream">>}
    /\ Valid(Config(<<"stdio">>, <<"./local">>)) # ErrNil
    /\ Valid(Config(<<"http-stream">>, EmptyStr)) # ErrNil
    /\ Valid(Config(<<"sse">>, <<"http://localhost/sse">>)) = ErrNil
    /\ Valid(Config(<<"http-stream">>, <<"http://localhost/mcp">>)) = ErrNil

\* C7 witness: one call of FromEnvVars judged a valid Config and an invalid one.
C7_Witness ==
    /\ rphase = "returned"
    /\ \E k \in DOMAIN verdict : verdict[k] = ErrNil
    /\ \E k \in DOMAIN verdict : verdict[k] # ErrNil

C8_Returned ==
    rphase = "returned" =>
        /\ \A k \in DOMAIN cfgs :
              /\ Valid(cfgs[k]) = ErrNil
              /\ k \in DOMAIN merged
              /\ cfgs[k] = merged[k]
        /\ \A k \in DOMAIN merged :
              (\/ merged[k].Transport \notin {SSE, StreamableHTTP}
               \/ merged[k].BaseURL = EmptyStr) => k \notin DOMAIN cfgs
        /\ (ei = 1 => cfgs = EmptyMap)

C8_SkipChangesNothing ==
    (rphase = "scan" /\ ei' = ei + 1 /\ ~HasPrefixStr(cur', EnvPrefix)) => cfgs' = cfgs

\* C8: every Config FromEnvVars returns is valid, a key whose merged Config
\* lacks a recognized transport or a baseURL is absent, an entry that does not
\* start with MCP_SERVER_TOOL_ changes nothing, and no entries give no Configs.
C8_FromEnvVarsOnlyValid == []C8_Returned /\ [][C8_SkipChangesNothing]_vars

\* C8 witness: a call returned one Config and dropped another key.
C8_Witness ==
    /\ rphase = "returned"
    /\ cfgs # EmptyMap
    /\ DOMAIN merged # DOMAIN cfgs

\* C9: parse of MCP_SERVER_TOOL_<K>_<F>=<v> returns K lower-cased and a Config
\* in which only the field F selects is set, to v; any other F gives the key
\* and the empty Config.
C9_ParseSelectsField ==
    lastParse.called =>
        \A k \in ProviderKeys, f \in FieldNames, v \in FieldValues :
            lastParse.e = WellFormedEntry(k, f, v) =>
                lastParse.res = ParseOk(ToLower(k), FieldConfig(f, v))

----------------------------------------------------------------------------
(* Properties of the codec *)

NonEmpty(d) == d # <<>>

\* The documents ComposedFromYAML sees in y: the non-empty pieces between
\* the occurrences of the marker.
StreamFrags(y) == SelectSeq(SplitStr(y, Dash3), NonEmpty)

FragParses(f) == YAMLToJSON(f).err = ErrNil /\ Unmarshal(YAMLToJSON(f).j) = ErrNil

FragName(f) == GetString(YAMLToJSON(f).j, "annotation")

\* Document i parses and has no name, or an empty one.
FragMissing(fs, i) == FragParses(fs[i]) /\ FragName(fs[i]) = EmptyStr

\* Document i parses and carries the name of an earlier document.
FragRepeats(fs, i) ==
    /\ FragParses(fs[i])
    /\ FragName(fs[i]) # EmptyStr
    /\ \E j \in 1..(i - 1) : FragParses(fs[j]) /\ FragName(fs[j]) = FragName(fs[i])

FragOffends(fs, i) == ~FragParses(fs[i]) \/ FragMissing(fs, i) \/ FragRepeats(fs, i)

\* Document i is the first that does not parse, has no name or repeats one.
FirstOffender(fs, i) == FragOffends(fs, i) /\ \A j \in 1..(i - 1) : ~FragOffends(fs, j)

Decoded == cphase \in {"decoded", "roundtrip"}

\* C1 (as stated): decoding what ComposedToYAML wrote succeeds and returns
\* the resources that were encoded, each with its annotation set to its
\* name, whatever the field values are and in whatever order the encoder
\* visited the map.
C1_RoundTrip ==
    cphase = "roundtrip" =>
        /\ cres.err = ErrNil
        /\ ~cres.isNil
        /\ cres.out = [n \in DOMAIN composed |-> SetBytes(composed[n], n)]

\* C2 (as stated): a stream with two documents of the same name fails with
\* the conflict error naming that value and returns no mapping.
C2_DuplicateAlwaysConflict ==
    Decoded =>
        LET fs == StreamFrags(ytext)
        IN (\E i \in DOMAIN fs : FragRepeats(fs, i)) =>
               /\ cres.err = ErrNotUnique
               /\ cres.isNil
               /\ \E i \in DOMAIN fs : FragRepeats(fs, i) /\ cres.name = FragName(fs[i])

\* C2 (amended): when the first document that does not parse, has no name or
\* repeats a name is one that repeats a name, the call fails with the
\* conflict error naming that value and returns nil, not what it had
\* accumulated.
C2_FirstOffenderDuplicate ==
    Decoded =>
        LET fs == StreamFrags(ytext)
        IN \A i \in DOMAIN fs :
               FirstOffender(fs, i) /\ FragRepeats(fs, i) =>
                   /\ cres.err = ErrNotUnique
                   /\ cres.name = FragName(fs[i])
                   /\ cres.isNil
                   /\ cres.out = EmptyMap

\* C2 witness: a decode met a repeated name after it had stored entries.
C2_Witness ==
    /\ cphase = "decoded"
    /\ \E i \in DOMAIN StreamFrags(ytext) :
           FirstOffender(StreamFrags(ytext), i) /\ FragRepeats(StreamFrags(ytext), i)
    /\ cres.err = ErrNotUnique
    /\ cres.acc # EmptyMap

\* C3 (as stated): a stream with a document whose name is absent or empty
\* fails with the missing error at the first such document, having stored
\* the documents before it, and returns no mapping.
C3_MissingAlwaysMissingError ==
    Decoded =>
        LET fs == StreamFrags(ytext)
        IN \A i \in DOMAIN fs :
               FragMissing(fs, i) /\ (\A j \in 1..(i - 1) : ~FragMissing(fs, j)) =>
                   /\ cres.err = ErrMissing
                   /\ cres.isNil
                   /\ DOMAIN cres.acc = {FragName(fs[j]) : j \in 1..(i - 1)}

\* C3 (amended): when the first document that does not parse, has no name or
\* repeats a name is one whose name is absent or empty, the call fails with
\* the missing error at that document and returns nil, whatever the earlier
\* documents stored.
C3_FirstOffenderMissing ==
    Decoded =>
        LET fs == StreamFrags(ytext)
        IN \A i \in DOMAIN fs :
               FirstOffender(fs, i) /\ FragMissing(fs, i) =>
                   /\ cres.err = ErrMissing
                   /\ cres.isNil
                   /\ cres.out = EmptyMap
                   /\ DOMAIN cres.acc = {FragName(fs[j]) : j \in 1..(i - 1)}

\* C3 witness: a decode met a document without a name after valid ones.
C3_Witness ==
    /\ cphase = "decoded"
    /\ \E i \in DOMAIN StreamFrags(ytext) :
           /\ i > 1
           /\ FirstOffender(StreamFrags(ytext), i)
           /\ FragMissing(StreamFrags(ytext), i)
    /\ cres.err = ErrMissing
    /\ cres.acc # EmptyMap

\* C4 (as stated): removeYAMLMarkdown applied to its own result returns that
\* result.
C4_StripIdempotent == Len(souts) = 2 => souts[2] = souts[1]

----------------------------------------------------------------------------
(* Properties of RunFunction *)

HasSuccess(p) ==
    \E i \in DOMAIN p.conditions :
        p.conditions[i].type = "FunctionSuccess" /\ p.conditions[i].status = "True"

\* The response carries a result of fatal severity.
HasFatal(p) == \E i \in DOMAIN p.results : p.results[i].severity = "FATAL"

\* RunFunction returned from operationPipeline.
OperationReturned == pc = "returned" /\ mode = "operation"

\* RunFunction returned from compositionPipeline.
CompositionReturned == pc = "returned" /\ mode = "composition"

\* C11 (as stated): an operation-mode request without the watched-resource
\* key ends with the FunctionSuccess condition, no fatal result, the desired
\* state of the request and no call of the model, whatever the user prompt.
C11_NoWatchedSucceeds ==
    (OperationReturned /\ ~req.watched.present) =>
        /\ HasSuccess(rsp)
        /\ ~HasFatal(rsp)
        /\ rsp.desired = req.desired
        /\ invoked = 0

\* The response carries a result of normal severity with this message.
HasNormal(p, msg) ==
    \E i \in DOMAIN p.results : p.results[i].severity = "NORMAL" /\ p.results[i].message = msg

\* operationPipeline got a reply from the model and the call is over.
OperationReplied == mode = "operation" /\ pc \in {"returned", "panic"} /\ invoked = 1 /\ ~reply.err

\* C12 (as stated): every operation-mode request the model replied to ends
\* with a response that holds the FunctionSuccess condition and a normal
\* result whose message is the reply, with and without a desired state in
\* the request; when the reply is not a document no desired resource is set.
C12_OperationReplyReported ==
    OperationReplied =>
        /\ pc = "returned"
        /\ HasSuccess(rsp)
        /\ HasNormal(rsp, reply.text)
        /\ (decoded.err # ErrNil => rsp.desired.resources = EmptyMap)

\* The request gets past the ignore, input and credential checks.
PassesChecks(q) == ~shouldIgnore(q) /\ q.input = "ok" /\ q.cred = "ok"

C13_ModeOfRequest ==
    /\ (pc = "composition" => mode = "composition")
    /\ (pc = "operation" => mode = "operation")
    /\ (pc \notin {"idle", "start"} =>
            mode = IF ~PassesChecks(req) THEN "none"
                   ELSE IF req.composite THEN "composition" ELSE "operation")

C13_ModeKept == mode # "none" => mode' = mode

\* C13: a request that passes the ignore, input and credential checks is
\* handled by compositionPipeline exactly when its observed composite is
\* present and by operationPipeline otherwise; a request that does not pass
\* is handled by neither, and the pipeline chosen never changes.
C13_ModeSelection == []C13_ModeOfRequest /\ [][C13_ModeKept]_vars

\* C13 witness: a request without observed composite went through
\* operationPipeline to the model and returned.
C13_Witness ==
    /\ pc = "returned"
    /\ mode = "operation"
    /\ ~req.composite
    /\ invoked = 1

\* The prompt of the request cannot be built: the template does not parse,
\* the resources do not encode, the watched resources are not exactly one,
\* or the template uses a field the mode does not expose.
FailsBeforeInvoke(q, m) ==
    IF m = "composition"
    THEN ~q.template.parses \/ ~q.encodes \/ ~(q.template.fields \subseteq Variables)
    ELSE \/ ~q.template.parses
         \/ (q.watched.n > 0 /\ ~q.encodes)
         \/ (q.watched.present /\ q.watched.n # 1)
         \/ (q.watched.present /\ ~(q.template.fields \subseteq OperationVariables))

\* C14: in both modes a request whose prompt cannot be built (template parse
\* or render failure, encoding failure) returns with a fatal result, the
\* desired state of the request and no call of the model.
C14_FailureBeforeInvokeIsFatal ==
    (mode # "none" /\ pc # mode /\ FailsBeforeInvoke(req, mode)) =>
        /\ pc = "returned"
        /\ HasFatal(rsp)
        /\ ~HasSuccess(rsp)
        /\ rsp.desired = req.desired
        /\ invoked = 0

\* C14 witness: a composition request whose template parses but uses a field
\* the mode does not expose returned fatal with its desired resources.
C14_Witness ==
    /\ CompositionReturned
    /\ req.template.parses
    /\ req.encodes
    /\ ~(req.template.fields \subseteq Variables)
    /\ HasFatal(rsp)
    /\ rsp.desired = req.desired
    /\ req.desired.resources # EmptyMap

\* The request gets as far as a rendered prompt.
PastRendering(q, m) ==
    /\ m # "none"
    /\ ~FailsBeforeInvoke(q, m)
    /\ (m = "operation" => q.watched.present)

C15_Count ==
    /\ invoked \in {0, 1}
    /\ (pc = "invoke" => invoked = 0 /\ PastRendering(req, mode))
    /\ (pc = "replied" => invoked = 1)
    /\ (pc \in {"returned", "panic"} => (invoked = 1 <=> PastRendering(req, mode)))
    /\ (invoked = 0 /\ pc \notin {"idle", "start"} => rsp.desired = req.desired)

C15_Order ==
    /\ (invoked' # invoked => pc = "invoke" /\ invoked = 0 /\ invoked' = 1 /\ rsp' = rsp)
    /\ (pc = "replied" => invoked' = invoked /\ pc' \in {"returned", "panic"})

\* C15: one RunFunction call invokes the model at most once, and exactly
\* once when the prompt was rendered; the call is made with the rendered
\* prompt, before the response's desired resources are touched, and a
\* failed call is followed by the return, not by another call.
C15_InvokedOnce == []C15_Count /\ [][C15_Order]_vars

\* C15 witness: the one call of the model failed and RunFunction returned.
C15_Witness ==
    /\ pc = "returned"
    /\ invoked = 1
    /\ reply.err

IgnoredMessage == <<"received an ignored resource, skipping">>

\* C16: a request whose context holds the ignored-resource marker with the
\* boolean true returns at once with the FunctionSuccess condition, no
\* fatal result, the desired state of the request and no call of the model;
\* with the marker absent, false or not a boolean the request is not
\* skipped: it goes on to the input and credential checks and, when it
\* passes them, into a pipeline.
C16_IgnoredShortCircuits ==
    pc \notin {"idle", "start"} =>
        IF req.ignored = "true"
        THEN /\ pc = "returned"
             /\ mode = "none"
             /\ HasSuccess(rsp)
             /\ ~HasFatal(rsp)
             /\ rsp.desired = req.desired
             /\ invoked = 0
             /\ ~rerr
        ELSE /\ ~HasNormal(rsp, IgnoredMessage)
             /\ (req.input = "bad" \/ req.cred # "ok" => pc = "returned" /\ HasFatal(rsp))
             /\ (req.input = "ok" /\ req.cred = "ok" => mode # "none")

\* C16 witness: an ignored request that carried desired resources and an
\* unreadable input returned them with the success condition.
C16_Witness ==
    /\ pc = "returned"
    /\ req.ignored = "true"
    /\ req.input = "bad"
    /\ req.desired.resources # EmptyMap
    /\ HasSuccess(rsp)
    /\ rsp.desired = req.desired

\* The template of the request parses and renders in operation mode, and
\* its resources encode.
OperationPromptBuilds(q) ==
    q.template.parses /\ q.template.fields \subseteq OperationVariables /\ q.encodes

\* C17 (as stated): in operation mode a request with no watched resource,
\* the key being absent or present with an empty list, succeeds without a
\* call of the model; with one watched resource the model is called; with
\* more than one the request is fatal and the model is not called.
C17_WatchedCardinality ==
    (mode = "operation" /\ pc \in {"returned", "panic"} /\ OperationPromptBuilds(req)) =>
        /\ (req.watched.n = 0 =>
                pc = "returned" /\ HasSuccess(rsp) /\ ~HasFatal(rsp) /\ invoked = 0)
        /\ (req.watched.n = 1 => invoked = 1)
        /\ (req.watched.n > 1 =>
                pc = "returned" /\ HasFatal(rsp) /\ ~HasSuccess(rsp) /\ invoked = 0)

\* C18 (as stated): in operation mode a failed call of the model leaves the
\* response without a fatal result and the request is not failed.
C18_OperationInvokeFailureNotFatal ==
    (OperationReturned /\ invoked = 1 /\ reply.err) =>
        /\ ~HasFatal(rsp)
        /\ ~rerr

\* The reply of the model does not give resources: the call failed, or the
\* reply without its fence does not decode.
ReplyFails(r) == r.err \/ ComposedFromYAML(removeYAMLMarkdown(r.text)).err # ErrNil

\* C19: in composition mode, when the call of the model fails or its reply
\* does not decode (a fragment that does not parse, a missing or a repeated
\* name), the response holds a fatal result and the desired state of the
\* request, untouched.
C19_CompositionFailureKeepsDesired ==
    (mode = "composition" /\ pc \in {"returned", "panic"} /\ invoked = 1 /\ ReplyFails(reply)) =>
        /\ pc = "returned"
        /\ HasFatal(rsp)
        /\ ~HasSuccess(rsp)
        /\ rerr
        /\ rsp.desired = req.desired

\* C19 witness: a reply with a repeated name was fatal and the desired
\* resources the request carried are still there.
C19_Witness ==
    /\ CompositionReturned
    /\ decoded.err = ErrNotUnique
    /\ decoded.acc # EmptyMap
    /\ HasFatal(rsp)
    /\ req.desired.resources # EmptyMap
    /\ rsp.desired = req.desired

----------------------------------------------------------------------------
(* Properties of the resolver on malformed entries *)

\* C20 (as stated): FromEnvVars never aborts, whatever the environment
\* holds: a call that has started scans every entry and returns a mapping,
\* also when an entry has the prefix but no further "_" or no "=value".
C20_FromEnvVarsNeverAborts ==
    /\ rphase # "panic"
    /\ (lastParse.called => ~lastParse.res.panic)

----------------------------------------------------------------------------
(* Properties of RunFunction: credentials, results and errors *)

\* C21 (as stated): a request without the credential "gpt" returns a
\* response with exactly one result, fatal and about the credential, and a
\* nil error; the model is not called and no condition or desired resource
\* is set.
C21_NoCredentialFatalNilError ==
    (pc = "returned" /\ req.ignored # "true" /\ req.input = "ok" /\ req.cred = "none") =>
        /\ Len(rsp.results) = 1
        /\ rsp.results[1].severity = "FATAL"
        /\ rsp.results[1].message = <<"cannot get OPENAI_API_KEY from credential">>
        /\ ~rerr
        /\ invoked = 0
        /\ rsp.conditions = <<>>
        /\ rsp.desired = req.desired

\* What RunFunction returns for the request req and the reply of the model
\* reply when no other call runs: the steps of RunFunction and of the pipeline
\* it chooses, one after the other. decoded is what the call got from
\* ComposedFromYAML or resourceFrom for its reply.
C22_Alone ==
    IF shouldIgnore(req)
    THEN [rsp |-> Normal(ConditionTrue(To(req)), <<"received an ignored resource, skipping">>),
          rerr |-> FALSE]
    ELSE IF req.input = "bad"
    THEN [rsp |-> Fatal(To(req), <<"cannot get Function input">>), rerr |-> TRUE]
    ELSE IF req.cred = "none"
    THEN [rsp |-> Fatal(To(req), <<"cannot get OPENAI_API_KEY from credential">>), rerr |-> TRUE]
    ELSE IF req.cred = "wrongtype"
    THEN [rsp |-> Fatal(To(req), <<"expected credential to be Data">>), rerr |-> FALSE]
    ELSE IF req.cred = "nokey"
    THEN [rsp |-> Fatal(To(req), <<"credential is missing required key">>), rerr |-> FALSE]
    ELSE IF inCompositionPipeline(req)
    THEN IF ~req.template.parses
         THEN [rsp |-> Fatal(To(req), <<"cannot parse userPrompt">>), rerr |-> TRUE]
         ELSE IF ~req.encodes
         THEN [rsp |-> Fatal(To(req), <<"cannot convert observed XR to YAML">>), rerr |-> TRUE]
         ELSE IF ~(req.template.fields \subseteq Variables)
         THEN [rsp |-> Fatal(To(req), <<"cannot build prompt from template">>), rerr |-> TRUE]
         ELSE IF reply.err
         THEN [rsp |-> Fatal(To(req), <<"failed to run chain">>), rerr |-> TRUE]
         ELSE LET dcds == decoded
              IN IF dcds.err # ErrNil
                 THEN [rsp |-> Fatal(To(req), <<"did not receive a YAML stream from GPT", dcds.err>>),
                       rerr |-> TRUE]
                 ELSE [rsp |-> [To(req) EXCEPT !.desired = SetResources(@, dcds.out)],
                       rerr |-> FALSE]
    ELSE IF ~req.template.parses
         THEN [rsp |-> Fatal(To(req), <<"failed to parse UserPrompt as a go-template">>), rerr |-> TRUE]
         ELSE IF req.watched.n > 0 /\ ~req.encodes
         THEN [rsp |-> Fatal(To(req), <<"cannot get Function extra resources">>), rerr |-> TRUE]
         ELSE IF ~req.watched.present
         THEN [rsp |-> ConditionTrue(To(req)), rerr |-> FALSE]
         ELSE IF req.watched.n # 1
         THEN [rsp |-> Fatal(To(req), <<"too many resources sent to the function. expected 1">>),
               rerr |-> FALSE]
         ELSE IF ~(req.template.fields \subseteq OperationVariables)
         THEN [rsp |-> Fatal(To(req), <<"cannot build prompt from template">>), rerr |-> TRUE]
         ELSE IF reply.err
         THEN [rsp |-> Fatal(To(req), <<"failed to run chain">>), rerr |-> TRUE]
         ELSE LET desired == decoded
              IN [rsp |-> [Normal(ConditionTrue(To(req)), reply.text)
                              EXCEPT !.desired = SetResources(@, desired.out)],
                  rerr |-> FALSE]

----------------------------------------------------------------------------
(* Properties of Resolve *)

\* The tools of the providers of ps whose steps all succeed, in the order of ps.
RECURSIVE C25_ToolsOfSucceeding(_)
C25_ToolsOfSucceeding(ps) ==
    IF ps = <<>> THEN <<>>
    ELSE (IF Head(ps).fails = "none" THEN Head(ps).offers ELSE <<>>)
         \o C25_ToolsOfSucceeding(Tail(ps))

\* C25: for any valid configs and any step failing or none for each provider,
\* the list Resolve returns is the tools of the providers whose four steps all
\* succeeded, one provider after the other; a provider that fails adds nothing
\* and takes nothing away from the providers before and after it.
C25_ResolveIsolatesFailures ==
    vphase = "returned" => tools = C25_ToolsOfSucceeding(provs)

\* C25 witness: Resolve has returned the tools of a provider that came after a
\* provider that failed.
C25_Witness_ToolsAfterFailure ==
    /\ vphase = "returned"
    /\ Len(provs) = 2
    /\ provs[1].fails # "none"
    /\ provs[2].fails = "none"
    /\ provs[2].offers # <<>>
    /\ tools = provs[2].offers

\* C26: every client Resolve started is closed when Resolve returns: no
\* provider client is open after the request.
C26_NoClientOutlivesResolve ==
    vphase = "returned" => opened = {}

----------------------------------------------------------------------------
(* Properties of the codec: blank fragments *)

\* The fragments of the stream that are not empty after trimming whitespace.
C23_Frags == SelectSeq(SplitStr(ytext, Dash3), NotBlank)

\* C23: fragments that are empty after trimming whitespace are discarded: a
\* stream whose other fragments all parse and carry distinct names decodes
\* without error to the resources of those fragments, whatever whitespace-only
\* fragments stand between its markers.
C23_BlankFragmentsDiscarded ==
    (cphase = "decoded" /\ \A i \in DOMAIN C23_Frags : ~FragOffends(C23_Frags, i)) =>
        /\ cres.err = ErrNil
        /\ DOMAIN cres.out = {FragName(C23_Frags[i]) : i \in DOMAIN C23_Frags}

----------------------------------------------------------------------------
(* Properties of RunFunction: the reply in operation mode, results and errors *)

C27_UninterpretableReplyKeepsDesired ==
    (OperationReturned /\ invoked = 1 /\ ~reply.err /\ decoded.err # ErrNil) =>
        rsp.desired = req.desired

\* C28: no response RunFunction returns carries both a result of fatal
\* severity and the FunctionSuccess condition with status true.
C28_NeverFatalAndSuccess ==
    pc = "returned" => ~(HasFatal(rsp) /\ HasSuccess(rsp))

\* C28 witness: RunFunction has returned a fatal result after the model was
\* called in operation mode, and the response has no condition.
C28_Witness_FatalAfterInvoke ==
    /\ OperationReturned
    /\ invoked = 1
    /\ reply.err
    /\ HasFatal(rsp)
    /\ rsp.conditions = <<>>

\* C29: on every return path of RunFunction the response has a result of
\* fatal severity exactly when the returned Go error is not nil.
C29_FatalIffError ==
    pc = "returned" => (HasFatal(rsp) <=> rerr)

----------------------------------------------------------------------------
(* Properties of the resolver: base URLs *)

\* C30: parse of MCP_SERVER_TOOL_<K>_BASEURL=<v> gives the key K lower-cased,
\* whatever v is, and a BaseURL equal to v as written: '_', '=' and upper-case
\* letters in v change neither.
C30_BaseURLVerbatim ==
    lastParse.called =>
        \A k \in ProviderKeys, f \in FieldNames, v \in FieldValues :
            (ToLower(f) = <<"baseurl">> /\ lastParse.e = WellFormedEntry(k, f, v)) =>
                /\ ~lastParse.res.panic
                /\ lastParse.res.key = ToLower(k)
                /\ lastParse.res.cfg.BaseURL = v

----------------------------------------------------------------------------
(* Specifications *)

\* FromEnvVars on any environment of at most MaxEnv entries.
InitSpecResolver == InitResolver /\ MergeIdle /\ CodecIdle /\ StripIdle /\ RunIdle /\ CallsIdle /\ ResolveIdle

SpecResolver == InitSpecResolver /\ [][NextResolver]_vars

\* The fragments of one provider key merged in any order.
InitSpecMerge == InitMerge /\ ResolverIdle /\ CodecIdle /\ StripIdle /\ RunIdle /\ CallsIdle /\ ResolveIdle

SpecMerge == InitSpecMerge /\ [][NextMerge]_vars

\* Resources encoded and decoded again, and streams from the model decoded.
InitSpecCodec == InitCodec /\ ResolverIdle /\ MergeIdle /\ StripIdle /\ RunIdle /\ CallsIdle /\ ResolveIdle

SpecCodec == InitSpecCodec /\ [][NextCodec]_vars

\* removeYAMLMarkdown applied twice in a row.
InitSpecStrip == InitStrip /\ ResolverIdle /\ MergeIdle /\ CodecIdle /\ RunIdle /\ CallsIdle /\ ResolveIdle

SpecStrip == InitSpecStrip /\ [][NextStrip]_vars

\* RunFunction on one request, with any reply from the model.
InitSpecRun == InitRun /\ ResolverIdle /\ MergeIdle /\ CodecIdle /\ StripIdle /\ CallsIdle /\ ResolveIdle

SpecRun == InitSpecRun /\ [][NextRun]_vars

\* Two RunFunction calls on one Function, their steps interleaved in any order.
InitSpecCalls ==
    InitCalls /\ ResolverIdle /\ MergeIdle /\ CodecIdle /\ StripIdle /\ ResolveIdle

SpecCalls == InitSpecCalls /\ [][NextCalls]_vars

\* Resolve on any valid configs, each step of each provider failing or not.
InitSpecResolve ==
    InitResolve /\ ResolverIdle /\ MergeIdle /\ CodecIdle /\ StripIdle /\ RunIdle /\ CallsIdle

SpecResolve == InitSpecResolve /\ [][NextResolve]_vars

====
